---- MODULE Spec2Model ----
(***************************************************************************)
(* A model of the maintenance-risk pipeline of maintsight-cli:             *)
(*   - XGBoostPredictor (the tree ensemble scorer): loadModel, predict,    *)
(*     predictSingle, predictTree, getRiskCategory;                        *)
(*   - FeatureEngineer: transform, extractFeatureVector, getFeatureNames;  *)
(*   - GitCommitCollector (the history aggregator): the constructor and    *)
(*     fetchCommitData, one step per line of the log output.               *)
(*                                                                         *)
(* Numbers.  JavaScript numbers are modelled exactly where the code only   *)
(* adds, compares and divides integers: a feature value is a rational      *)
(* [n, d] with d > 0, and d = 0 stands for NaN.  Raw scores (base score,   *)
(* leaf weights) are counted in tenths, risk scores and thresholds in      *)
(* thousandths; Sigmoid maps tenths to thousandths in fixed point.         *)
(* Strings that the code parses are sequences of one-character strings.    *)
(***************************************************************************)
EXTENDS Integers, Sequences, FiniteSets, TLC

\* ------------------------------------------------------------------ bounds
\* Longest batch of records handed to predict.
MaxBatch == 2
\* Longest log output, in lines, handed to fetchCommitData.
MaxLines == 3

VARIABLES
    \* XGBoostPredictor
    model,          \* this.model: <<>> (null) or <<content>>
    loadSucceeded,  \* history: some loadModel call on this instance has resolved
    call,           \* the last call on the scorer, its inputs and its outcome
    \* GitCommitCollector constructor
    ctor,           \* the last constructor call, its inputs and its outcome
    \* GitCommitCollector.fetchCommitData
    lines,          \* logOutput.split('\n')
    idx,            \* number of lines the for-loop has consumed
    fileStats,      \* Map<string, FileStats>, as a sequence in insertion order
    current,        \* currentAuthor, currentDate, isBugFix, isFeature, isRefactor
    fetch,          \* position of fetchCommitData: idle, folding, threw, returned
    results         \* the CommitData[] returned

scorerVars == <<model, loadSucceeded, call>>
collectorVars == <<lines, idx, fileStats, current, fetch, results>>
vars == <<model, loadSucceeded, call, ctor, lines, idx, fileStats, current, fetch, results>>

\* --------------------------------------------------------- small helpers
\* An optional value (undefined / null in the source) is <<>> or <<v>>.
Absent == <<>>
Some(v) == <<v>>
IsAbsent(o) == o = <<>>

\* Math.max that returns its first argument.
FirstOf(a, b) == a

\* Math.max
Max(a, b) == IF a >= b THEN a ELSE b

\* Rationals: [n, d], d > 0; d = 0 is NaN.
Rat(n, d) == [n |-> n, d |-> d]
OfInt(n) == Rat(n, 1)
NaN == Rat(0, 0)
IsNaN(q) == q.d = 0
\* a < b in JavaScript: false as soon as one side is NaN.
RatLt(a, b) == ~IsNaN(a) /\ ~IsNaN(b) /\ a.n * b.d < b.n * a.d
RatEq(a, b) == ~IsNaN(a) /\ ~IsNaN(b) /\ a.n * b.d = b.n * a.d
\* a / b for rationals with b > 0 or b NaN.
RatDiv(a, b) == IF IsNaN(a) \/ IsNaN(b) THEN NaN ELSE Rat(a.n * b.d, a.d * b.n)

\* ------------------------------------------------------- FeatureEngineer
\* record.f of an untyped record: undefined when the record has no field f.
Get(record, f) == IF f \in DOMAIN record THEN Some(record[f]) ELSE Absent
\* `x || 0` for a numeric field: undefined and 0 both give 0.
OrZero(o) == IF IsAbsent(o) THEN 0 ELSE o[1]

SecondsPerDay == 86400

\* A Date is <<s>>, s its time in seconds (getTime() is s * 1000: every date of the
\* model is built from whole seconds, and the factor cancels in every quotient), or
\* <<>>, the invalid date, whose getTime() is NaN.
\* new Date(record.f): invalid when the record has no field f.
DateOf(record, f) == IF f \in DOMAIN record THEN record[f] ELSE Absent

\* Math.max(1, Math.floor((modified - created) / (1000*60*60*24)) + 1);
\* Math.max(1, NaN) is NaN.
DaysActiveOf(created, modified) ==
    IF IsAbsent(created) \/ IsAbsent(modified) THEN NaN
    ELSE OfInt(Max(1, ((modified[1] - created[1]) \div SecondsPerDay) + 1))

\* FeatureEngineer.transform, for one record of the batch.
TransformRecord(record) ==
    LET commits == Max(OrZero(Get(record, "prs")), 1)
        authors == Max(OrZero(Get(record, "unique_authors")), 1)
        lines_added == OrZero(Get(record, "lines_added"))
        lines_deleted == OrZero(Get(record, "lines_removed"))
        churn == lines_added + lines_deleted
        bug_commits == OrZero(Get(record, "bug_prs"))
        days_active == DaysActiveOf(DateOf(record, "created_at"), DateOf(record, "last_modified"))
        churn_per_commit == Rat(churn, commits)
        net_lines == lines_added - lines_deleted
    IN  [ module |-> record.module,
          commits |-> OfInt(commits),
          authors |-> OfInt(authors),
          lines_added |-> OfInt(lines_added),
          lines_deleted |-> OfInt(lines_deleted),
          churn |-> OfInt(churn),
          bug_commits |-> OfInt(bug_commits),
          refactor_commits |-> OfInt(0),
          feature_commits |-> OfInt(commits - bug_commits),
          lines_per_author |-> Rat(lines_added + lines_deleted, authors),
          churn_per_commit |-> churn_per_commit,
          bug_ratio |-> Rat(bug_commits, commits),
          days_active |-> days_active,
          commits_per_day |-> RatDiv(OfInt(commits), days_active),
          degradation_days |-> OfInt(0),
          net_lines |-> OfInt(net_lines),
          \* 1 / (1 + churn / commits), commits >= 1 here
          code_stability |-> IF commits > 0 THEN Rat(commits, commits + churn) ELSE OfInt(0),
          is_high_churn_commit |-> IF RatLt(OfInt(50), churn_per_commit) THEN OfInt(1) ELSE OfInt(0),
          bug_commit_rate |-> IF RatLt(OfInt(0), days_active)
                              THEN RatDiv(OfInt(bug_commits), days_active) ELSE OfInt(0),
          commits_squared |-> OfInt(commits * commits),
          author_concentration |-> Rat(1, authors),
          lines_per_commit |-> Rat(lines_added + lines_deleted, commits),
          churn_rate |-> Rat(churn, Max(1, net_lines)),
          modification_ratio |-> Rat(lines_deleted, Max(1, lines_added)),
          churn_per_author |-> Rat(churn, authors),
          deletion_rate |-> Rat(lines_deleted, Max(1, churn)),
          commit_density |-> RatDiv(OfInt(commits), days_active) ]

\* A map that hands the records back last first.
TransformReversed(data) == [i \in 1..Len(data) |-> TransformRecord(data[Len(data) + 1 - i])]

\* FeatureEngineer.transform: data.map(...), one FeatureVector per record, in order.
Transform(data) == [i \in 1..Len(data) |-> TransformRecord(data[i])]

\* The fields in alphabetical order of their names.
ExtractAlphabetical(features) ==
    << features.author_concentration, features.authors, features.bug_commit_rate,
       features.bug_commits, features.bug_ratio, features.churn, features.churn_per_author,
       features.churn_per_commit, features.churn_rate, features.code_stability,
       features.commit_density, features.commits, features.commits_per_day,
       features.commits_squared, features.days_active, features.degradation_days,
       features.deletion_rate, features.feature_commits, features.is_high_churn_commit,
       features.lines_added, features.lines_deleted, features.lines_per_author,
       features.lines_per_commit, features.modification_ratio, features.net_lines,
       features.refactor_commits >>

\* FeatureEngineer.extractFeatureVector
ExtractFeatureVector(features) ==
    << features.commits, features.authors, features.lines_added, features.lines_deleted,
       features.churn, features.bug_commits, features.refactor_commits,
       features.feature_commits, features.lines_per_author, features.churn_per_commit,
       features.bug_ratio, features.days_active, features.commits_per_day,
       features.degradation_days, features.net_lines, features.code_stability,
       features.is_high_churn_commit, features.bug_commit_rate, features.commits_squared,
       features.author_concentration, features.lines_per_commit, features.churn_rate,
       features.modification_ratio, features.churn_per_author, features.deletion_rate,
       features.commit_density >>

\* FeatureEngineer.getFeatureNames
GetFeatureNames ==
    << "commits", "authors", "lines_added", "lines_deleted", "churn", "bug_commits",
       "refactor_commits", "feature_commits", "lines_per_author", "churn_per_commit",
       "bug_ratio", "days_active", "commits_per_day", "degradation_days", "net_lines",
       "code_stability", "is_high_churn_commit", "bug_commit_rate", "commits_squared",
       "author_concentration", "lines_per_commit", "churn_rate", "modification_ratio",
       "churn_per_author", "deletion_rate", "commit_density" >>


\* ------------------------------------------------------ XGBoostPredictor
\* What JSON.parse makes of a model file.  json is "invalid" (JSON.parse throws),
\* "null" (the JSON value null), "primitive" (a number, string or true: a value
\* without properties) or "object"; the other fields are the parts of an object
\* the scorer reads, each optional:
\*   feature_names          model.feature_names
\*   learner_feature_names  model.model_data.learner.feature_names
\*   base_score             model.model_data.learner.learner_model_param.base_score:
\*                          [kind |-> "arrayString", tenths |-> v] is the string "[v]",
\*                          [kind |-> "number", tenths |-> v] the JSON number v
\*                          [kind |-> "string", tenths |-> v] the string "v", without
\*                          brackets
\*   trees                  model.model_data.learner.gradient_booster.model.trees
\*   risk_thresholds        model.risk_thresholds, in thousandths
Content(json, names, learnerNames, base, trees, thresholds) ==
    [ json |-> json, feature_names |-> names, learner_feature_names |-> learnerNames,
      base_score |-> base, trees |-> trees, risk_thresholds |-> thresholds ]

\* let score = 0.5, in tenths
DefaultBaseScore == 5

\* e^(n/10) * 1000 for n >= 0, in fixed point (e^0.1 = 1.105...).
RECURSIVE ExpMilli(_)
ExpMilli(n) == IF n = 0 THEN 1000 ELSE (ExpMilli(n - 1) * 1105) \div 1000

\* 1 / (1 + Math.exp(-score)): score in tenths, result in thousandths.
Sigmoid(score) ==
    IF score >= 0
    THEN (1000 * ExpMilli(score)) \div (ExpMilli(score) + 1000)
    ELSE (1000 * 1000) \div (1000 + ExpMilli(-score))

\* A walk that goes left on equality too.
RECURSIVE PredictTreeFromInclusive(_, _, _)
PredictTreeFromInclusive(tree, features, nodeId) ==
    IF tree.left_children[nodeId + 1] = -1
    THEN tree.base_weights[nodeId + 1]
    ELSE LET featureValue == features[tree.split_indices[nodeId + 1] + 1]
             splitCondition == OfInt(tree.split_conditions[nodeId + 1])
         IN  IF RatLt(featureValue, splitCondition) \/ RatEq(featureValue, splitCondition)
             THEN PredictTreeFromInclusive(tree, features, tree.left_children[nodeId + 1])
             ELSE PredictTreeFromInclusive(tree, features, tree.right_children[nodeId + 1])

\* XGBoostPredictor.predictTree from node nodeId (0-based, as in the arrays).
RECURSIVE PredictTreeFrom(_, _, _)
PredictTreeFrom(tree, features, nodeId) ==
    IF tree.left_children[nodeId + 1] = -1
    THEN tree.base_weights[nodeId + 1]
    ELSE LET featureIndex == tree.split_indices[nodeId + 1]
             featureValue == features[featureIndex + 1]
             splitCondition == tree.split_conditions[nodeId + 1]
         IN  IF RatLt(featureValue, OfInt(splitCondition))
             THEN PredictTreeFrom(tree, features, tree.left_children[nodeId + 1])
             ELSE PredictTreeFrom(tree, features, tree.right_children[nodeId + 1])

PredictTree(tree, features) == PredictTreeFrom(tree, features, 0)

\* A loop that leaves after its first tree.
SumFirstTreeOnly(trees, features, score) == score + PredictTree(Head(trees), features)

\* for (const tree of trees) score += this.predictTree(tree, features)
RECURSIVE SumTrees(_, _, _)
SumTrees(trees, features, score) ==
    IF trees = <<>> THEN score
    ELSE SumTrees(Tail(trees), features, score + PredictTree(Head(trees), features))

\* The base score predictSingle starts from: 0.5 unless base_score is truthy and
\* matches /\[([-\d.eE]+)\]/.  A truthy base_score that is a number has no
\* match method: predictSingle throws a TypeError.
BaseScoreThrows(m) ==
    /\ ~IsAbsent(m.base_score)
    /\ m.base_score[1].kind = "number"
    /\ m.base_score[1].tenths # 0

BaseScoreOf(m) ==
    IF ~IsAbsent(m.base_score) /\ m.base_score[1].kind = "arrayString"
    THEN m.base_score[1].tenths
    ELSE DefaultBaseScore

\* model_data?.learner?.gradient_booster?.model?.trees || []
TreesOf(m) == IF IsAbsent(m.trees) THEN <<>> ELSE m.trees[1]

\* XGBoostPredictor.predictSingle on a loaded model m: the score in thousandths,
\* or threw.  With no trees the base score is returned as it is (a tenth is 100
\* thousandths).
PredictSingle(m, features) ==
    IF BaseScoreThrows(m) THEN [threw |-> TRUE, score |-> 0]
    ELSE IF Len(TreesOf(m)) = 0
         THEN [threw |-> FALSE, score |-> BaseScoreOf(m) * 100]
         ELSE [threw |-> FALSE, score |-> Sigmoid(SumTrees(TreesOf(m), features, BaseScoreOf(m)))]

\* The if-chain with < for <=: a score on a boundary goes to the higher bucket.
CategoryForExclusive(score, t) ==
    IF score < t.no_risk THEN "no-risk"
    ELSE IF score < t.low_risk THEN "low-risk"
    ELSE IF score < t.medium_risk THEN "medium-risk"
    ELSE "high-risk"

\* The if-chain of getRiskCategory over thresholds t.
CategoryFor(score, t) ==
    IF score <= t.no_risk THEN "no-risk"
    ELSE IF score <= t.low_risk THEN "low-risk"
    ELSE IF score <= t.medium_risk THEN "medium-risk"
    ELSE "high-risk"

\* XGBoostPredictor.getRiskCategory on this.model = mo (<<>> is null).  Reading
\* thresholds.no_risk of a model without risk_thresholds throws a TypeError.
GetRiskCategory(mo, score) ==
    IF IsAbsent(mo) THEN [threw |-> FALSE, category |-> "medium-risk"]
    ELSE IF IsAbsent(mo[1].risk_thresholds) THEN [threw |-> TRUE, category |-> ""]
    ELSE [threw |-> FALSE, category |-> CategoryFor(score, mo[1].risk_thresholds[1])]

NotLoadedError == "Model not loaded. Call loadModel() first."
TypeErrorThrown == "TypeError"
Returned == "returned"

\* features.map(...) of predict: one prediction per feature, in order.
PredictionOf(mo, feature) ==
    LET single == PredictSingle(mo[1], ExtractFeatureVector(feature))
        cat == GetRiskCategory(mo, single.score)
    IN  [ threw |-> single.threw \/ cat.threw,
          module |-> feature.module,
          risk_score |-> single.score,
          risk_category |-> cat.category ]

\* predict past its guard, on a loaded model: transform, then one prediction per
\* feature; an exception in predictSingle or getRiskCategory leaves predict.  (The
\* statistics it logs afterwards change no state and throw nothing.)
PredictLoaded(mo, commitData) ==
    LET features == Transform(commitData)
        preds == [i \in 1..Len(features) |-> PredictionOf(mo, features[i])]
    IN  IF \E i \in 1..Len(preds) : preds[i].threw
        THEN [outcome |-> TypeErrorThrown, predictions |-> <<>>]
        ELSE [ outcome |-> Returned,
               predictions |-> [i \in 1..Len(preds) |->
                   [ module |-> preds[i].module,
                     risk_score |-> preds[i].risk_score,
                     risk_category |-> preds[i].risk_category ]] ]

\* predict without its guard: on a null model an empty batch returns [], and the
\* first record runs into predictSingle's own 'Model not loaded'.
PredictOutcomeUnguarded(mo, commitData) ==
    IF IsAbsent(mo)
    THEN [outcome |-> IF commitData = <<>> THEN Returned ELSE "Model not loaded", predictions |-> <<>>]
    ELSE PredictLoaded(mo, commitData)

\* XGBoostPredictor.predict on this.model = mo: what it throws or returns.
PredictOutcome(mo, commitData) ==
    IF IsAbsent(mo) THEN [outcome |-> NotLoadedError, predictions |-> <<>>]
    ELSE PredictLoaded(mo, commitData)

\* The value loadModel leaves in this.model after JSON.parse succeeded on content c:
\* null stays null; an object without feature_names takes the learner's.
ParsedModel(c) ==
    IF c.json = "null" THEN Absent
    ELSE IF IsAbsent(c.feature_names) /\ ~IsAbsent(c.learner_feature_names)
         THEN Some([c EXCEPT !.feature_names = c.learner_feature_names])
         ELSE Some(c)

LoadFailedError == "Failed to load model"
Resolved == "resolved"

\* A loadModel that resets this.model before it reads the file.
LoadOutcomeResetting(mo, file) ==
    IF ~file.readable \/ file.content.json = "invalid"
    THEN [outcome |-> LoadFailedError, model |-> Absent]
    ELSE [outcome |-> Resolved, model |-> ParsedModel(file.content)]

\* XGBoostPredictor.loadModel: rejects when fs.readFile or JSON.parse throws, and
\* this.model is assigned only after both succeeded.
LoadOutcome(mo, file) ==
    IF ~file.readable \/ file.content.json = "invalid"
    THEN [outcome |-> LoadFailedError, model |-> mo]
    ELSE [outcome |-> Resolved, model |-> ParsedModel(file.content)]

\* ----------------------------------------------- the scorer's inputs
\* The tree of the tests: node 0 splits feature 0 (commits) at 50, leaves 0.1 and -0.1.
TreeA ==
    [ left_children |-> <<1, -1, -1>>, right_children |-> <<2, -1, -1>>,
      split_indices |-> <<0, 0, 0>>, split_conditions |-> <<50, 0, 0>>,
      base_weights |-> <<0, 1, -1>> ]
\* Node 0 splits feature 2 (lines_added) at 100; its right child, node 2, splits
\* feature 11 (days_active) at 2.
TreeB ==
    [ left_children |-> <<1, -1, 3, -1, -1>>, right_children |-> <<2, -1, 4, -1, -1>>,
      split_indices |-> <<2, 0, 11, 0, 0>>, split_conditions |-> <<100, 0, 2, 0, 0>>,
      base_weights |-> <<0, -2, 0, 1, 3>> ]

TreeLists == {Absent, Some(<<>>), Some(<<TreeA>>), Some(<<TreeA, TreeB>>)}

BaseScores ==
    { Absent,
      Some([kind |-> "arrayString", tenths |-> 0]),
      Some([kind |-> "arrayString", tenths |-> 20]),
      Some([kind |-> "arrayString", tenths |-> -20]),
      Some([kind |-> "number", tenths |-> 5]),
      Some([kind |-> "string", tenths |-> 20]) }

Thresholds(a, b, c) == [no_risk |-> a, low_risk |-> b, medium_risk |-> c]
ThresholdOptions ==
    { Absent,
      Some(Thresholds(220, 470, 650)),
      Some(Thresholds(220, 220, 650)),
      Some(Thresholds(650, 470, 220)) }

\* The Feature Engineer's names with the first two exchanged.
SwappedNames == <<GetFeatureNames[2], GetFeatureNames[1]>> \o SubSeq(GetFeatureNames, 3, Len(GetFeatureNames))
\* The two names the tests' model declares.
TwoNames == <<"lines_added", "lines_removed">>

\* feature_names at the top level, or under model_data.learner only.
NameOptions ==
    { <<Some(GetFeatureNames), Absent>>,
      <<Absent, Some(GetFeatureNames)>>,
      <<Absent, Some(TwoNames)>>,
      <<Some(SwappedNames), Absent>> }

\* Objects with every base score, tree list and thresholds under the Feature
\* Engineer's names, and one object under each of the other name lists (the scorer
\* reads feature_names nowhere after loadModel).
ObjectContents ==
    { Content("object", Some(GetFeatureNames), Absent, b, t, r) :
        b \in BaseScores, t \in TreeLists, r \in ThresholdOptions }
    \cup { Content("object", n[1], n[2], Some([kind |-> "arrayString", tenths |-> 0]),
                   Some(<<TreeA>>), Some(Thresholds(220, 470, 650))) : n \in NameOptions }

InvalidContent == Content("invalid", Absent, Absent, Absent, Absent, Absent)
NullContent == Content("null", Absent, Absent, Absent, Absent, Absent)
PrimitiveContent == Content("primitive", Absent, Absent, Absent, Absent, Absent)
\* {} : an object with none of the parts
EmptyObject == Content("object", Absent, Absent, Absent, Absent, Absent)

Contents == ObjectContents \cup {InvalidContent, NullContent, PrimitiveContent, EmptyObject}

\* A model file: fs.readFile fails on it, or yields a content.
UnreadableFile == [readable |-> FALSE, content |-> InvalidContent]
Files == {UnreadableFile} \cup {[readable |-> TRUE, content |-> c] : c \in Contents}

\* Records handed to predict: two of the shape transform reads (prs, unique_authors,
\* lines_removed, bug_prs) and one of the shape fetchCommitData returns.
RecordA ==
    [ module |-> "a.ts", prs |-> 10, unique_authors |-> 3, lines_added |-> 100,
      lines_removed |-> 50, bug_prs |-> 2, created_at |-> Some(0), last_modified |-> Some(2592000) ]
RecordB ==
    [ module |-> "b.ts", prs |-> 60, unique_authors |-> 0, lines_added |-> 0,
      lines_removed |-> 0, bug_prs |-> 0, created_at |-> Some(0), last_modified |-> Some(0) ]
RecordC ==
    [ module |-> "c.ts", commits |-> 2, authors |-> 2, lines_added |-> 30,
      lines_deleted |-> 5, bug_commits |-> 1, created_at |-> Some(0), last_modified |-> Some(86400) ]
Records == {RecordA, RecordB, RecordC}

Batches == UNION {[1..n -> Records] : n \in 0..MaxBatch}

\* Scores getRiskCategory is called with, in thousandths.
ScoreGrid == {0, 219, 220, 221, 470, 471, 650, 651, 1000}

\* --------------------------------------------------- the scorer's actions
NoFile == UnreadableFile
\* features is the local of predict, and the result of a transform call; vector
\* the result of an extractFeatureVector call, or the argument of a predictTree
\* call, which has a scorer, the shape the tree was written in, the tree and the
\* leaf weight returned; nodeId is the local of predictTree's loop and steps the
\* number of iterations that moved it.
NoCall ==
    [ op |-> "none", file |-> NoFile, batch |-> <<>>, score |-> 0,
      outcome |-> "", predictions |-> <<>>, category |-> "",
      features |-> <<>>, vector |-> <<>>,
      scorer |-> "", shape |-> "", tree |-> <<>>, weight |-> 0,
      nodeId |-> <<>>, steps |-> 0 ]

\* new XGBoostPredictor()
InitScorer ==
    /\ model = Absent
    /\ loadSucceeded = FALSE
    /\ call = NoCall

\* await predictor.loadModel(path), path naming file
LoadModel(file) ==
    LET out == LoadOutcome(model, file)
    IN  /\ model' = out.model
        /\ loadSucceeded' = (loadSucceeded \/ out.outcome = Resolved)
        /\ call' = [NoCall EXCEPT !.op = "loadModel", !.file = file, !.outcome = out.outcome]
        /\ UNCHANGED <<ctor, collectorVars>>

\* A predict that remembers the score of the call before it.
PredictCaching(commitData) ==
    LET out == PredictOutcome(model, commitData)
        stale == call.op = "predict" /\ call.outcome = Returned /\ call.predictions # <<>>
        preds == IF stale
                 THEN [i \in 1..Len(out.predictions) |->
                          [out.predictions[i] EXCEPT !.risk_score = call.predictions[1].risk_score]]
                 ELSE out.predictions
    IN  /\ call' = [NoCall EXCEPT !.op = "predict", !.batch = commitData,
                                  !.features = IF IsAbsent(model) THEN <<>> ELSE Transform(commitData),
                                  !.outcome = out.outcome, !.predictions = preds]
        /\ UNCHANGED <<model, loadSucceeded, ctor, collectorVars>>

\* predictor.predict(commitData)
Predict(commitData) ==
    LET out == PredictOutcome(model, commitData)
    IN  /\ call' = [NoCall EXCEPT !.op = "predict", !.batch = commitData,
                                  !.features = IF IsAbsent(model) THEN <<>> ELSE Transform(commitData),
                                  !.outcome = out.outcome, !.predictions = out.predictions]
        /\ UNCHANGED <<model, loadSucceeded, ctor, collectorVars>>

\* predictor['getRiskCategory'](score)
Classify(score) ==
    LET out == GetRiskCategory(model, score)
    IN  /\ call' = [NoCall EXCEPT !.op = "getRiskCategory", !.score = score,
                                  !.outcome = IF out.threw THEN TypeErrorThrown ELSE Returned,
                                  !.category = out.category]
        /\ UNCHANGED <<model, loadSucceeded, ctor, collectorVars>>

\* ------------------------------------------- the Feature Engineer's calls
\* Records of the shape transform reads, with counts of zero and above: commits
\* (prs) 0 or 2, authors (unique_authors) 0 or 3, lines added 0 or 100, lines
\* removed 0 or 50, over ten days.
EngineerRecord(prs, authors, added, removed) ==
    [ module |-> "src/test.ts", prs |-> prs, unique_authors |-> authors,
      lines_added |-> added, lines_removed |-> removed,
      bug_prs |-> IF prs = 0 THEN 0 ELSE 1, churn |-> added + removed,
      created_at |-> Some(0), last_modified |-> Some(10 * SecondsPerDay) ]
EngineerRecords ==
    { EngineerRecord(prs, authors, added, removed) :
        prs \in {0, 2}, authors \in {0, 3}, added \in {0, 100}, removed \in {0, 50} }
EngineerBatches == UNION {[1..n -> EngineerRecords] : n \in 0..MaxBatch}

\* The CommitFeatures of the tests: the i-th field of the vector holds i.
NumberedFeatures ==
    [ n \in {GetFeatureNames[i] : i \in 1..Len(GetFeatureNames)} \cup {"module"} |->
        IF n = "module" THEN "test.ts"
        ELSE OfInt(CHOOSE i \in 1..Len(GetFeatureNames) : GetFeatureNames[i] = n) ]
\* The CommitFeatures extractFeatureVector is called with.
FeatureRecords == {NumberedFeatures} \cup {TransformRecord(r) : r \in EngineerRecords}

\* featureEngineer.transform(data) on a new FeatureEngineer, data one of the batches.
TransformCall ==
    /\ call.op = "none"
    /\ \E data \in EngineerBatches :
          call' = [NoCall EXCEPT !.op = "transform", !.batch = data,
                                 !.features = Transform(data), !.outcome = Returned]
    /\ UNCHANGED <<model, loadSucceeded, ctor, collectorVars>>

\* featureEngineer.extractFeatureVector(features) on a new FeatureEngineer.
ExtractCall ==
    /\ call.op = "none"
    /\ \E features \in FeatureRecords :
          call' = [NoCall EXCEPT !.op = "extractFeatureVector", !.features = <<features>>,
                                 !.vector = ExtractFeatureVector(features), !.outcome = Returned]
    /\ UNCHANGED <<model, loadSucceeded, ctor, collectorVars>>

\* ------------------------------------------------------------- strings
\* A string the code parses is a sequence of one-character strings.
\* String.prototype.includes
Includes(s, sub) ==
    \E i \in 0..(Len(s) - Len(sub)) : SubSeq(s, i + 1, i + Len(sub)) = sub

\* Position of the first sep in s, 0 when there is none.
RECURSIVE IndexFrom(_, _, _)
IndexFrom(s, sep, i) ==
    IF i > Len(s) THEN 0 ELSE IF s[i] = sep THEN i ELSE IndexFrom(s, sep, i + 1)

\* String.prototype.split on a one-character separator.
RECURSIVE Split(_, _)
Split(s, sep) ==
    LET i == IndexFrom(s, sep, 1)
    IN  IF i = 0 THEN <<s>>
        ELSE <<SubSeq(s, 1, i - 1)>> \o Split(SubSeq(s, i + 1, Len(s)), sep)

\* Array.prototype.join on a one-character separator.
RECURSIVE Join(_, _)
Join(parts, sep) ==
    IF parts = <<>> THEN <<>>
    ELSE IF Len(parts) = 1 THEN parts[1]
    ELSE parts[1] \o <<sep>> \o Join(Tail(parts), sep)

Digits == <<"0", "1", "2", "3", "4", "5", "6", "7", "8", "9">>
IsDigit(c) == \E i \in 1..10 : Digits[i] = c
DigitValue(c) == (CHOOSE i \in 1..10 : Digits[i] = c) - 1
\* \s of a regular expression, as far as the inputs go: space and tab
IsSpace(c) == c \in {" ", "\t"}

\* Number of leading characters of s, from position i on, that satisfy the class.
RECURSIVE DigitRun(_, _)
DigitRun(s, i) == IF i <= Len(s) /\ IsDigit(s[i]) THEN 1 + DigitRun(s, i + 1) ELSE 0
RECURSIVE SpaceRun(_, _)
SpaceRun(s, i) == IF i <= Len(s) /\ IsSpace(s[i]) THEN 1 + SpaceRun(s, i + 1) ELSE 0

\* Value of the decimal digits s[i..j].
RECURSIVE DecimalValue(_, _, _)
DecimalValue(s, i, j) ==
    IF j < i THEN 0 ELSE DecimalValue(s, i, j - 1) * 10 + DigitValue(s[j])

\* parseInt(s): leading white space, an optional sign, then the longest run of
\* digits; <<>> (NaN) when there is no digit there.  parseInt(undefined) is NaN.
ParseInt(s) ==
    LET start == SpaceRun(s, 1) + 1
        signed == start <= Len(s) /\ s[start] \in {"-", "+"}
        first == IF signed THEN start + 1 ELSE start
        n == DigitRun(s, first)
        v == DecimalValue(s, first, first + n - 1)
    IN  IF n = 0 THEN Absent
        ELSE Some(IF signed /\ s[start] = "-" THEN -v ELSE v)

UpperCase == <<"A", "B", "C", "D", "E", "F", "G", "H", "I", "J", "K", "L", "M",
               "N", "O", "P", "Q", "R", "S", "T", "U", "V", "W", "X", "Y", "Z">>
LowerCase == <<"a", "b", "c", "d", "e", "f", "g", "h", "i", "j", "k", "l", "m",
               "n", "o", "p", "q", "r", "s", "t", "u", "v", "w", "x", "y", "z">>
LowerChar(c) ==
    IF \E i \in 1..26 : UpperCase[i] = c
    THEN LowerCase[CHOOSE i \in 1..26 : UpperCase[i] = c]
    ELSE c
\* String.prototype.toLowerCase
ToLowerCase(s) == [i \in 1..Len(s) |-> LowerChar(s[i])]

\* Position of the last c in s, 0 when there is none.
RECURSIVE LastIndexOf(_, _, _)
LastIndexOf(s, c, i) ==
    IF i = 0 THEN 0 ELSE IF s[i] = c THEN i ELSE LastIndexOf(s, c, i - 1)

\* path.extname: from the last "." of the last path segment to the end; empty when
\* the segment has no "." or only starts with its one ".".
Extname(filepath) ==
    LET slash == LastIndexOf(filepath, "/", Len(filepath))
        base == SubSeq(filepath, slash + 1, Len(filepath))
        dot == LastIndexOf(base, ".", Len(base))
    IN  IF dot <= 1 THEN <<>> ELSE SubSeq(base, dot, Len(base))

\* ---------------------------------------- GitCommitCollector: constructor
MaxBranchName == 2
MaxBranches == 2

BranchChars == {"m", "a"}
\* Branch names: the non-empty strings up to MaxBranchName characters.
BranchNames == UNION {[1..n -> BranchChars] : n \in 1..MaxBranchName}
\* The branch argument of the constructor.
BranchArgs == BranchNames
\* A repository's branches, the checked-out one first: distinct names.
BranchLists ==
    { bs \in UNION {[1..n -> BranchNames] : n \in 1..MaxBranches} :
        \A i, j \in 1..Len(bs) : i # j => bs[i] # bs[j] }

\* What `git branch -a` prints: "* " before the checked-out branch, two spaces
\* before the others, one branch a line.
RECURSIVE BranchListing(_, _)
BranchListing(bs, first) ==
    IF bs = <<>> THEN <<>>
    ELSE (IF first THEN <<"*", " ">> ELSE <<" ", " ">>) \o Head(bs) \o <<"\n">>
         \o BranchListing(Tail(bs), FALSE)

\* The place repoPath names: nothing, a directory that is no working copy, or a
\* working copy with its branches; listOk is whether `git branch -a` runs there.
Place(exists, isGit, listOk, bs) ==
    [exists |-> exists, isGit |-> isGit, listOk |-> listOk, branches |-> bs]
Places ==
    { Place(FALSE, FALSE, FALSE, <<>>), Place(TRUE, FALSE, FALSE, <<>>) }
    \cup { Place(TRUE, TRUE, ok, bs) : ok \in BOOLEAN, bs \in BranchLists }

PathMissing == "Repository path does not exist: ${repoPath}"
InvalidRepo == "Invalid git repository: ${repoPath}"
BranchNotFound == "Failed to verify branch: Error: Branch '${branch}' not found"
BranchListFailed == "Failed to verify branch: ${e}"
Constructed == "constructed"

\* branches.includes(branch)
BranchListed(listing, branch) == Includes(listing, branch)

\* new GitCommitCollector(repoPath, branch) with repoPath naming place: what it throws,
\* or Constructed.  The error thrown inside the try for a missing branch is caught by
\* its own catch and thrown again behind "Failed to verify branch: ".
ConstructorOutcome(place, branch) ==
    IF ~place.exists THEN PathMissing
    ELSE IF ~place.isGit THEN InvalidRepo
    ELSE IF ~place.listOk THEN BranchListFailed
    ELSE IF ~BranchListed(BranchListing(place.branches, TRUE), branch) THEN BranchNotFound
    ELSE Constructed

NoPlace == Place(FALSE, FALSE, FALSE, <<>>)
NotConstructed == [called |-> FALSE, place |-> NoPlace, branch |-> <<>>, outcome |-> ""]

\* new GitCommitCollector(repoPath, branch)
Construct(place, branch) ==
    /\ ~ctor.called
    /\ ctor' = [ called |-> TRUE, place |-> place, branch |-> branch,
                 outcome |-> ConstructorOutcome(place, branch) ]
    /\ UNCHANGED <<scorerVars, collectorVars>>

\* --------------------------------- GitCommitCollector: fetchCommitData
SourceExtensions ==
    { <<".", "p", "y">>,
      <<".", "j", "s">>,
      <<".", "t", "s">>,
      <<".", "j", "a", "v", "a">>,
      <<".", "c", "p", "p">>,
      <<".", "c">>,
      <<".", "h">>,
      <<".", "h", "p", "p">>,
      <<".", "c", "s">>,
      <<".", "r", "b">>,
      <<".", "g", "o">>,
      <<".", "r", "s">>,
      <<".", "p", "h", "p">>,
      <<".", "s", "w", "i", "f", "t">>,
      <<".", "k", "t">>,
      <<".", "s", "c", "a", "l", "a">>,
      <<".", "r">>,
      <<".", "m">>,
      <<".", "j", "s", "x">>,
      <<".", "t", "s", "x">>,
      <<".", "v", "u", "e">>,
      <<".", "s", "o", "l">> }

\* isSourceFile without toLowerCase
IsSourceFileCaseSensitive(filepath) == Extname(filepath) \in SourceExtensions

\* GitCommitCollector.isSourceFile
IsSourceFile(filepath) == ToLowerCase(Extname(filepath)) \in SourceExtensions

BugKeywords == {<<"f", "i", "x">>, <<"b", "u", "g">>, <<"p", "a", "t", "c", "h">>, <<"h", "o", "t", "f", "i", "x">>, <<"b", "u", "g", "f", "i", "x">>}
FeatureKeywords == {<<"f", "e", "a", "t">>, <<"f", "e", "a", "t", "u", "r", "e">>, <<"a", "d", "d">>, <<"i", "m", "p", "l", "e", "m", "e", "n", "t">>}
RefactorKeywords == {<<"r", "e", "f", "a", "c", "t", "o", "r">>, <<"c", "l", "e", "a", "n">>, <<"i", "m", "p", "r", "o", "v", "e">>}

\* [...].some((kw) => messageLower.includes(kw))
SomeKeyword(keywords, messageLower) == \E kw \in keywords : Includes(messageLower, kw)

\* line.includes('|')
IsHeaderLine(line) == Includes(line, <<"|">>)

\* line.match(/^\d+\s+\d+\s+/)
MatchesStat(line) ==
    LET d1 == DigitRun(line, 1)
        s1 == SpaceRun(line, 1 + d1)
        d2 == DigitRun(line, 1 + d1 + s1)
        s2 == SpaceRun(line, 1 + d1 + s1 + d2)
    IN  d1 >= 1 /\ s1 >= 1 /\ d2 >= 1 /\ s2 >= 1

\* parseInt(x) || 0
ParseIntOrZero(s) == OrZero(ParseInt(s))

\* new Date(parseInt(timestamp) * 1000): the invalid date when parseInt gives NaN.
DateOfTimestamp(timestamp) == ParseInt(timestamp)

\* a < b for two Dates: false when one of them is invalid.
DateLt(a, b) == ~IsAbsent(a) /\ ~IsAbsent(b) /\ a[1] < b[1]

\* The branch of the loop for a header line: the new commit context, or threw when
\* the line has fewer than four fields (message is undefined, and
\* message.toLowerCase() throws a TypeError).
HeaderStep(line) ==
    LET fields == Split(line, "|")
    IN  IF Len(fields) < 4
        THEN [threw |-> TRUE, context |-> <<>>]
        ELSE LET messageLower == ToLowerCase(fields[4])
             IN  [ threw |-> FALSE,
                   context |-> Some([ author |-> fields[2],
                                      date |-> DateOfTimestamp(fields[3]),
                                      isBugFix |-> SomeKeyword(BugKeywords, messageLower),
                                      isFeature |-> SomeKeyword(FeatureKeywords, messageLower),
                                      isRefactor |-> SomeKeyword(RefactorKeywords, messageLower) ]) ]

\* A map that never finds an entry.
StatsIndexMissing(stats, filepath) == 0

\* fileStats.has(filepath): the position of the entry, 0 when there is none.
StatsIndex(stats, filepath) ==
    IF \E i \in 1..Len(stats) : stats[i].path = filepath
    THEN CHOOSE i \in 1..Len(stats) : stats[i].path = filepath
    ELSE 0

\* The entry fileStats.set creates on the first stat line of a path.
NewStats(filepath, context) ==
    [ path |-> filepath, lines_added |-> 0, lines_deleted |-> 0, commits |-> 0,
      authors |-> {}, bug_commits |-> 0, feature_commits |-> 0, refactor_commits |-> 0,
      first_commit |-> context.date, last_commit |-> context.date ]

\* The updates of one stat line with = for += on the two line counts.
FoldIntoOverwriting(entry, added, removed, context) ==
    [ entry EXCEPT
        !.lines_added = added,
        !.lines_deleted = removed,
        !.commits = @ + 1,
        !.authors = @ \cup {context.author},
        !.bug_commits = IF context.isBugFix THEN @ + 1 ELSE @,
        !.feature_commits = IF context.isFeature THEN @ + 1 ELSE @,
        !.refactor_commits = IF context.isRefactor THEN @ + 1 ELSE @,
        !.first_commit = IF DateLt(context.date, @) THEN context.date ELSE @,
        !.last_commit = IF DateLt(@, context.date) THEN context.date ELSE @ ]

\* The updates of one stat line that never move the earliest timestamp.
FoldIntoKeepingFirst(entry, added, removed, context) ==
    [ entry EXCEPT
        !.lines_added = @ + added,
        !.lines_deleted = @ + removed,
        !.commits = @ + 1,
        !.authors = @ \cup {context.author},
        !.bug_commits = IF context.isBugFix THEN @ + 1 ELSE @,
        !.feature_commits = IF context.isFeature THEN @ + 1 ELSE @,
        !.refactor_commits = IF context.isRefactor THEN @ + 1 ELSE @,
        !.last_commit = IF DateLt(@, context.date) THEN context.date ELSE @ ]

\* The updates of one stat line that take every commit as the earliest.
FoldIntoMovingFirst(entry, added, removed, context) ==
    [ entry EXCEPT
        !.lines_added = @ + added,
        !.lines_deleted = @ + removed,
        !.commits = @ + 1,
        !.authors = @ \cup {context.author},
        !.bug_commits = IF context.isBugFix THEN @ + 1 ELSE @,
        !.feature_commits = IF context.isFeature THEN @ + 1 ELSE @,
        !.refactor_commits = IF context.isRefactor THEN @ + 1 ELSE @,
        !.first_commit = context.date,
        !.last_commit = IF DateLt(@, context.date) THEN context.date ELSE @ ]

\* The updates of one stat line on the entry of its path.
FoldInto(entry, added, removed, context) ==
    [ entry EXCEPT
        !.lines_added = @ + added,
        !.lines_deleted = @ + removed,
        !.commits = @ + 1,
        !.authors = @ \cup {context.author},
        !.bug_commits = IF context.isBugFix THEN @ + 1 ELSE @,
        !.feature_commits = IF context.isFeature THEN @ + 1 ELSE @,
        !.refactor_commits = IF context.isRefactor THEN @ + 1 ELSE @,
        !.first_commit = IF DateLt(context.date, @) THEN context.date ELSE @,
        !.last_commit = IF DateLt(@, context.date) THEN context.date ELSE @ ]

\* The branch of the loop for a line that matches the stat pattern.
StatStep(stats, context, line) ==
    LET parts == Split(line, "\t")
    IN  IF Len(parts) < 3 THEN stats
        ELSE LET added == ParseIntOrZero(parts[1])
                 removed == ParseIntOrZero(parts[2])
                 filepath == parts[3]
                 at == StatsIndex(stats, filepath)
             IN  IF ~IsSourceFile(filepath) THEN stats
                 ELSE IF at = 0
                      THEN Append(stats, FoldInto(NewStats(filepath, context), added, removed, context))
                      ELSE [stats EXCEPT ![at] = FoldInto(@, added, removed, context)]

\* An iteration in which a header line replaces the author and the date of the
\* context and leaves its flags.
FoldStepKeepingFlags(stats, context, line) ==
    IF IsHeaderLine(line)
    THEN LET h == HeaderStep(line)
         IN  IF h.threw THEN [threw |-> TRUE, stats |-> stats, context |-> context]
             ELSE [threw |-> FALSE, stats |-> stats,
                   context |-> [context EXCEPT !.author = h.context[1].author,
                                               !.date = h.context[1].date]]
    ELSE IF MatchesStat(line)
         THEN [threw |-> FALSE, stats |-> StatStep(stats, context, line), context |-> context]
         ELSE [threw |-> FALSE, stats |-> stats, context |-> context]

\* One iteration of `for (const line of lines)`.
FoldStep(stats, context, line) ==
    IF IsHeaderLine(line)
    THEN LET h == HeaderStep(line)
         IN  IF h.threw THEN [threw |-> TRUE, stats |-> stats, context |-> context]
             ELSE [threw |-> FALSE, stats |-> stats, context |-> h.context[1]]
    ELSE IF MatchesStat(line)
         THEN [threw |-> FALSE, stats |-> StatStep(stats, context, line), context |-> context]
         ELSE [threw |-> FALSE, stats |-> stats, context |-> context]

\* The whole loop `for (const line of lines)` from stats and context on: the map
\* it leaves, or threw.
RECURSIVE FoldAll(_, _, _)
FoldAll(ls, stats, context) ==
    IF ls = <<>> THEN [threw |-> FALSE, stats |-> stats]
    ELSE LET step == FoldStep(stats, context, Head(ls))
         IN  IF step.threw THEN [threw |-> TRUE, stats |-> stats]
             ELSE FoldAll(Tail(ls), step.stats, step.context)

\* Math.ceil(a / b) for b > 0
CeilDiv(a, b) == -((-a) \div b)

\* Math.max(Math.ceil((last - first) / (24*60*60*1000)), 1); NaN for an invalid date.
DaysActive(first, last) ==
    IF IsAbsent(first) \/ IsAbsent(last) THEN NaN
    ELSE OfInt(Max(CeilDiv(last[1] - first[1], SecondsPerDay), 1))

\* The CommitData record fetchCommitData pushes for one entry of fileStats.
CommitDataOf(entry) ==
    LET daysActive == DaysActive(entry.first_commit, entry.last_commit)
        numAuthors == Cardinality(entry.authors)
        numCommits == entry.commits
        churn == entry.lines_added + entry.lines_deleted
    IN  [ module |-> entry.path,
          filename |-> entry.path,
          repo_name |-> "path.basename(this.repoPath)",
          commits |-> numCommits,
          authors |-> numAuthors,
          lines_added |-> entry.lines_added,
          lines_deleted |-> entry.lines_deleted,
          churn |-> churn,
          bug_commits |-> entry.bug_commits,
          refactor_commits |-> entry.refactor_commits,
          feature_commits |-> entry.feature_commits,
          lines_per_author |-> IF numAuthors > 0 THEN Rat(entry.lines_added, numAuthors) ELSE OfInt(0),
          churn_per_commit |-> IF numCommits > 0 THEN Rat(churn, numCommits) ELSE OfInt(0),
          bug_ratio |-> IF numCommits > 0 THEN Rat(entry.bug_commits, numCommits) ELSE OfInt(0),
          days_active |-> daysActive,
          commits_per_day |-> RatDiv(OfInt(numCommits), daysActive),
          created_at |-> entry.first_commit,
          last_modified |-> entry.last_commit ]

\* The array fetchCommitData returns: [] for an empty map, else one record per
\* entry, in the map's insertion order.
ResultsOf(stats) == [i \in 1..Len(stats) |-> CommitDataOf(stats[i])]

\* ------------------------------------------------- the log outputs
\* a bug-fix commit by al, at day 1
HdrFix == <<"h", "1", "|", "a", "l", "|", "8", "6", "4", "0", "0", "|", "F", "i", "x", " ", "x">>
\* a feature commit by bo, at day 0
HdrAdd == <<"h", "2", "|", "b", "o", "|", "0", "|", "a", "d", "d">>
\* a header whose timestamp is no number
HdrBadTime == <<"h", "4", "|", "c", "y", "|", "z", "z", "|", "f", "i", "x">>
\* a line with a "|" and fewer than four fields
HdrShort == <<"x", "|", "y">>
\* a commit by bo whose message, "tidy|fix", holds a "|"
HdrPipeMessage ==
    <<"h", "5", "|", "b", "o", "|", "0", "|", "t", "i", "d", "y", "|", "f", "i", "x">>
StatA1 == <<"1", "0", "\t", "5", "\t", "a", ".", "t", "s">>
StatA2 == <<"2", "0", "\t", "0", "\t", "a", ".", "t", "s">>
\* an upper-case source extension
StatUpper == <<"3", "\t", "1", "\t", "b", ".", "T", "S">>
\* no source file
StatDoc == <<"5", "\t", "2", "\t", "R", ".", "m", "d">>
\* a stat line of a file whose name holds a "|"
StatPipe == <<"7", "\t", "1", "\t", "c", "|", "d", ".", "t", "s">>
\* a stat line of a document whose name holds a "|"
StatPipeDoc == <<"7", "\t", "1", "\t", "c", "|", "d", ".", "m", "d">>
\* the stat line of a binary file
StatBinary == <<"-", "\t", "-", "\t", "i", ".", "p", "n", "g">>
\* two numbers and a path, separated by spaces
StatSpaces == <<"1", " ", "2", " ", "a", ".", "t", "s">>
\* the empty line between a header and its stat lines
Blank == <<>>
LogLines ==
    { HdrFix, HdrAdd, HdrBadTime, HdrShort, HdrPipeMessage, StatA1, StatA2, StatUpper, StatDoc, StatPipe,
      StatPipeDoc, StatBinary, StatSpaces, Blank }

\* What `git log` prints: any sequence of these lines, joined by newlines.
LogOutputs == {Join(ls, "\n") : ls \in UNION {[1..n -> LogLines] : n \in 0..MaxLines}}

\* The time of the call, new Date(), in seconds: later than every commit.
CallTimes == {259200}

\* ----------------------------------- fetchCommitData, a step per line
\* The locals before the loop: currentAuthor = '', currentDate = new Date(), no flag.
StartContext(now) ==
    [author |-> <<>>, date |-> Some(now), isBugFix |-> FALSE, isFeature |-> FALSE, isRefactor |-> FALSE]

\* A collector the constructor has returned, fetchCommitData not yet called.
InitCollector ==
    /\ lines = <<>>
    /\ idx = 0
    /\ fileStats = <<>>
    /\ current = StartContext(0)
    /\ fetch = "idle"
    /\ results = <<>>

\* collector.fetchCommitData(maxCommits) up to the loop: execSync returns one of
\* the log outputs, at one of the call times.
FetchStart ==
    /\ fetch = "idle"
    /\ \E logOutput \in LogOutputs, now \in CallTimes :
          /\ lines' = Split(logOutput, "\n")
          /\ current' = StartContext(now)
    /\ idx' = 0
    /\ fileStats' = <<>>
    /\ fetch' = "folding"
    /\ results' = <<>>
    /\ UNCHANGED <<scorerVars, ctor>>

\* One iteration of the loop; an exception leaves fetchCommitData.
FoldLine ==
    /\ fetch = "folding"
    /\ idx < Len(lines)
    /\ LET step == FoldStep(fileStats, current, lines[idx + 1])
       IN  /\ fetch' = IF step.threw THEN "threw" ELSE "folding"
           /\ fileStats' = step.stats
           /\ current' = step.context
    /\ idx' = idx + 1
    /\ UNCHANGED <<lines, results, scorerVars, ctor>>

\* After the loop: the conversion of fileStats, and the return.
FetchFinish ==
    /\ fetch = "folding"
    /\ idx = Len(lines)
    /\ results' = ResultsOf(fileStats)
    /\ fetch' = "returned"
    /\ UNCHANGED <<lines, idx, fileStats, current, scorerVars, ctor>>

\* ------------------------------------------- the histories of the pipeline
\* a refactoring commit by al, at day 2
HdrClean == <<"h", "3", "|", "a", "l", "|", "1", "7", "2", "8", "0", "0", "|", "c", "l", "e", "a", "n">>
\* The lines of a history as `git log --numstat --format="%H|%ae|%at|%s"` prints it
\* for commits on source files: commit headers and numeric-stat lines.
HistoryLines == {HdrFix, HdrAdd, HdrClean, StatA1, StatA2, StatUpper}
\* Longest history, in lines.
MaxHistory == 4
\* A history begins with the header of its first commit.
Histories ==
    { Join(ls, "\n") :
        ls \in {h \in UNION {[1..n -> HistoryLines] : n \in 1..MaxHistory} : IsHeaderLine(h[1])} }

\* models/model.json of the package: the Feature Engineer's names, two trees.
PipelineFile ==
    [ readable |-> TRUE,
      content |-> Content("object", Some(GetFeatureNames), Absent,
                          Some([kind |-> "arrayString", tenths |-> 0]),
                          Some(<<TreeA, TreeB>>), Some(Thresholds(220, 470, 650))) ]

\* ------------------------------------- the predict command, step by step
\* predictor.loadModel(modelPath), the first step of the command.
LoadPipelineModel ==
    /\ call.op = "none"
    /\ fetch = "idle"
    /\ LoadModel(PipelineFile)

\* gitCollector.fetchCommitData(...) up to the loop, once the model is loaded:
\* execSync returns one of the histories.
FetchHistory ==
    /\ call.op = "loadModel"
    /\ call.outcome = Resolved
    /\ fetch = "idle"
    /\ \E logOutput \in Histories, now \in CallTimes :
          /\ lines' = Split(logOutput, "\n")
          /\ current' = StartContext(now)
    /\ idx' = 0
    /\ fileStats' = <<>>
    /\ fetch' = "folding"
    /\ results' = <<>>
    /\ UNCHANGED <<scorerVars, ctor>>

\* predictor.predict(commitData) on what fetchCommitData returned; the command
\* exits before it when commitData is empty.
PredictResults ==
    /\ fetch = "returned"
    /\ results # <<>>
    /\ call.op = "loadModel"
    /\ Predict(results)

\* ------------------------------------------------ the encodings of a tree
\* A node object of the older encodings; an Absent field is undefined.  split is a
\* feature index in an array of nodes and a name "f<index>" in a nested node.
Node(nodeid, leaf, split, condition, yes, no, children) ==
    [ nodeid |-> nodeid, leaf |-> leaf, split |-> split, split_condition |-> condition,
      yes |-> yes, no |-> no, children |-> children ]

LeafNode(nodeid, weight) == Node(nodeid, Some(weight), Absent, Absent, Absent, Absent, Absent)

\* features[featureIndex]: undefined outside the array, and undefined < x is
\* false as NaN < x is.
FeatureAt(features, featureIndex) ==
    IF IsAbsent(featureIndex) \/ featureIndex[1] + 1 \notin 1..Len(features) THEN NaN
    ELSE features[featureIndex[1] + 1]

\* The older XGBoostPredictor.predictTreeArray; nodes[nodeId] outside the array is
\* undefined and reading its leaf throws.
RECURSIVE PredictTreeArray(_, _, _)
PredictTreeArray(nodes, features, nodeId) ==
    IF nodeId + 1 \notin 1..Len(nodes) THEN [threw |-> TRUE, weight |-> 0]
    ELSE LET node == nodes[nodeId + 1]
             featureIndex == OrZero(node.split)
             featureValue == FeatureAt(features, Some(featureIndex))
         IN  IF ~IsAbsent(node.leaf) THEN [threw |-> FALSE, weight |-> node.leaf[1]]
             ELSE IF RatLt(featureValue, OfInt(OrZero(node.split_condition)))
                  THEN PredictTreeArray(nodes, features, OrZero(node.yes))
                  ELSE PredictTreeArray(nodes, features, OrZero(node.no))

\* s.replace('f', ''): s without its first "f".
RECURSIVE RemoveFirstF(_)
RemoveFirstF(s) ==
    IF s = <<>> THEN <<>>
    ELSE IF Head(s) = "f" THEN Tail(s)
    ELSE <<Head(s)>> \o RemoveFirstF(Tail(s))

\* parseInt(node.split?.replace('f', '') || '0')
SplitIndex(split) ==
    LET name == IF IsAbsent(split) THEN <<>> ELSE RemoveFirstF(split[1])
    IN  ParseInt(IF name = <<>> THEN <<"0">> ELSE name)

\* node.children.find((c) => c.nodeid === id), <<>> when there is none.
FindChild(node, id) ==
    IF IsAbsent(id) \/ IsAbsent(node.children) THEN Absent
    ELSE LET cs == node.children[1]
             found == {i \in 1..Len(cs) : cs[i].nodeid = id[1]}
         IN  IF found = {} THEN Absent
             ELSE Some(cs[CHOOSE i \in found : \A j \in found : i <= j])

\* The older XGBoostPredictor.predictTreeNode: without the child to follow it
\* falls back to 0.
RECURSIVE PredictTreeNode(_, _)
PredictTreeNode(node, features) ==
    IF ~IsAbsent(node.leaf) THEN [threw |-> FALSE, weight |-> node.leaf[1]]
    ELSE LET featureValue == FeatureAt(features, SplitIndex(node.split))
             child == IF RatLt(featureValue, OfInt(OrZero(node.split_condition)))
                      THEN FindChild(node, node.yes)
                      ELSE FindChild(node, node.no)
         IN  IF IsAbsent(child) THEN [threw |-> FALSE, weight |-> 0]
             ELSE PredictTreeNode(child[1], features)

\* What predictTreeNode reads of an object with the five parallel arrays only:
\* leaf, split, split_condition, yes, no and children are all undefined.
FlatAsNode == Node(Absent, Absent, Absent, Absent, Absent, Absent, Absent)

\* The older XGBoostPredictor.predictTree on a tree written in one of the shapes:
\* "array" an array of nodes, "nodes" an object with a nodes array, "nested" a
\* root node with children, "flat" an object of parallel arrays.
OlderPredictTree(encoded, features) ==
    IF encoded.shape = "array" THEN PredictTreeArray(encoded.value, features, 0)
    ELSE IF encoded.shape = "nodes" THEN PredictTreeArray(encoded.value.nodes, features, 0)
    ELSE IF encoded.shape = "flat" THEN PredictTreeNode(FlatAsNode, features)
    ELSE PredictTreeNode(encoded.value, features)

\* The current XGBoostPredictor.predictTree on the same: tree.left_children is
\* undefined on every shape but "flat", and tree.left_children[nodeId] throws.
CurrentPredictTree(encoded, features) ==
    IF encoded.shape = "flat"
    THEN [threw |-> FALSE, weight |-> PredictTree(encoded.value, features)]
    ELSE [threw |-> TRUE, weight |-> 0]

\* The decimal digits of n >= 0.
RECURSIVE FormatInt(_)
FormatInt(n) ==
    IF n < 10 THEN <<Digits[n + 1]>>
    ELSE FormatInt(n \div 10) \o <<Digits[(n % 10) + 1]>>

\* Node nodeId of the parallel arrays of tree, as a node of an array of nodes.
ArrayNode(tree, nodeId) ==
    IF tree.left_children[nodeId + 1] = -1
    THEN LeafNode(nodeId, tree.base_weights[nodeId + 1])
    ELSE Node(nodeId, Absent, Some(tree.split_indices[nodeId + 1]),
              Some(tree.split_conditions[nodeId + 1]),
              Some(tree.left_children[nodeId + 1]), Some(tree.right_children[nodeId + 1]),
              Absent)

\* The same node with its subtrees as children and its feature named "f<index>".
RECURSIVE NestedNode(_, _)
NestedNode(tree, nodeId) ==
    IF tree.left_children[nodeId + 1] = -1
    THEN LeafNode(nodeId, tree.base_weights[nodeId + 1])
    ELSE Node(nodeId, Absent, Some(<<"f">> \o FormatInt(tree.split_indices[nodeId + 1])),
              Some(tree.split_conditions[nodeId + 1]),
              Some(tree.left_children[nodeId + 1]), Some(tree.right_children[nodeId + 1]),
              Some(<< NestedNode(tree, tree.left_children[nodeId + 1]),
                      NestedNode(tree, tree.right_children[nodeId + 1]) >>))

Shapes == {"flat", "array", "nodes", "nested"}

\* The content of tree written in a shape.
Encode(tree, shape) ==
    LET nodes == [i \in 1..Len(tree.left_children) |-> ArrayNode(tree, i - 1)]
    IN  [ shape |-> shape,
          value |-> IF shape = "flat" THEN tree
                    ELSE IF shape = "array" THEN nodes
                    ELSE IF shape = "nodes" THEN [nodes |-> nodes]
                    ELSE NestedNode(tree, 0) ]

LogicalTrees == {TreeA, TreeB}

\* Vectors of 26 features on both sides of every split of the trees: commits 49
\* or 50, lines_added 99 or 100, days_active 1, 2 or NaN; the others 0.
VectorWith(commits, lines_added, days_active) ==
    [i \in 1..Len(GetFeatureNames) |->
        IF i = 1 THEN OfInt(commits)
        ELSE IF i = 3 THEN OfInt(lines_added)
        ELSE IF i = 12 THEN days_active
        ELSE OfInt(0)]
EncodingVectors ==
    { VectorWith(c, a, d) : c \in {49, 50}, a \in {99, 100}, d \in {OfInt(1), OfInt(2), NaN} }

\* predictor['predictTree'](tree, features) on the current XGBoostPredictor
CurrentPredictTreeCall ==
    /\ call.op = "none"
    /\ \E tree \in LogicalTrees, shape \in Shapes, features \in EncodingVectors :
          LET out == CurrentPredictTree(Encode(tree, shape), features)
          IN  call' = [NoCall EXCEPT !.op = "predictTree", !.scorer = "current",
                                     !.shape = shape, !.tree = tree, !.vector = features,
                                     !.outcome = IF out.threw THEN TypeErrorThrown ELSE Returned,
                                     !.weight = out.weight]
    /\ UNCHANGED <<model, loadSucceeded, ctor, collectorVars>>

\* predictor['predictTree'](tree, features) on the older XGBoostPredictor
OlderPredictTreeCall ==
    /\ call.op = "none"
    /\ \E tree \in LogicalTrees, shape \in Shapes, features \in EncodingVectors :
          LET out == OlderPredictTree(Encode(tree, shape), features)
          IN  call' = [NoCall EXCEPT !.op = "predictTree", !.scorer = "older",
                                     !.shape = shape, !.tree = tree, !.vector = features,
                                     !.outcome = IF out.threw THEN TypeErrorThrown ELSE Returned,
                                     !.weight = out.weight]
    /\ UNCHANGED <<model, loadSucceeded, ctor, collectorVars>>

\* ------------------------------------------- the loop of predictTree
\* arr[i] of a JavaScript array, i a number or undefined: undefined outside it.
At(arr, i) ==
    IF IsAbsent(i) \/ i[1] + 1 \notin 1..Len(arr) THEN Absent ELSE Some(arr[i[1] + 1])

\* An iteration that stays at its node.
LoopStepStaying(tree, features, nodeId) ==
    [returned |-> FALSE, weight |-> 0, nodeId |-> nodeId]

\* One iteration of `while (true)` in predictTree at nodeId (<<>> is undefined):
\* it returns base_weights[nodeId], or moves nodeId to a child.  undefined < x and
\* x < undefined are false.
LoopStep(tree, features, nodeId) ==
    LET left == At(tree.left_children, nodeId)
        featureValue == FeatureAt(features, At(tree.split_indices, nodeId))
        splitCondition == At(tree.split_conditions, nodeId)
    IN  IF left = Some(-1)
        THEN [returned |-> TRUE, weight |-> At(tree.base_weights, nodeId)[1], nodeId |-> nodeId]
        ELSE [returned |-> FALSE, weight |-> 0,
              nodeId |-> IF ~IsAbsent(splitCondition) /\ RatLt(featureValue, OfInt(splitCondition[1]))
                         THEN left
                         ELSE At(tree.right_children, nodeId)]

\* The tree of the tests with the right child of node 0 linked back to node 0.
TreeCycle == [TreeA EXCEPT !.right_children = <<0, -1, -1>>]
\* The same with a right child id outside the arrays.
TreeDangling == [TreeA EXCEPT !.right_children = <<7, -1, -1>>]

WalkTrees == LogicalTrees \cup {TreeCycle, TreeDangling}

\* The iterations counted, and no further.
MaxSteps == 6

Running == "running"

\* predictTree(tree, features) up to its loop: let nodeId = 0
WalkStart ==
    /\ call.op = "none"
    /\ \E tree \in WalkTrees, features \in EncodingVectors :
          call' = [NoCall EXCEPT !.op = "walk", !.scorer = "current", !.shape = "flat",
                                 !.tree = tree, !.vector = features,
                                 !.nodeId = Some(0), !.outcome = Running]
    /\ UNCHANGED <<model, loadSucceeded, ctor, collectorVars>>

\* One iteration of the loop.
WalkStep ==
    /\ call.op = "walk"
    /\ call.outcome = Running
    /\ LET step == LoopStep(call.tree, call.vector, call.nodeId)
       IN  call' = IF step.returned
                   THEN [call EXCEPT !.outcome = Returned, !.weight = step.weight]
                   ELSE [call EXCEPT !.nodeId = step.nodeId,
                                     !.steps = IF @ < MaxSteps THEN @ + 1 ELSE @]
    /\ UNCHANGED <<model, loadSucceeded, ctor, collectorVars>>

\* -------------------------------------------------------- specifications
\* Before any call: a new scorer, no collector constructed, fetchCommitData idle.
Init == InitScorer /\ ctor = NotConstructed /\ InitCollector

\* The scorer: an XGBoostPredictor and the calls made on it.
NextScorer ==
    \/ \E file \in Files : LoadModel(file)
    \/ \E commitData \in Batches : Predict(commitData)
    \/ \E score \in ScoreGrid : Classify(score)
SpecScorer == Init /\ [][NextScorer]_vars

\* The constructor of GitCommitCollector, over the places and branch arguments.
NextConstructor == \E place \in Places, branch \in BranchArgs : Construct(place, branch)
SpecConstructor == Init /\ [][NextConstructor]_vars

\* The aggregator: fetchCommitData on a constructed collector.
NextAggregator ==
    \/ FetchStart
    \/ FoldLine
    \/ FetchFinish
SpecAggregator == Init /\ [][NextAggregator]_vars

\* The predict command: loadModel, fetchCommitData on a history, predict.
NextPipeline ==
    \/ LoadPipelineModel
    \/ FetchHistory
    \/ FoldLine
    \/ FetchFinish
    \/ PredictResults
SpecPipeline == Init /\ [][NextPipeline]_vars

\* The Feature Engineer: transform and extractFeatureVector calls.
NextEngineer ==
    \/ TransformCall
    \/ ExtractCall
SpecEngineer == Init /\ [][NextEngineer]_vars

\* The two scorers' predictTree, over the shapes a tree is written in.
NextEncodings ==
    \/ CurrentPredictTreeCall
    \/ OlderPredictTreeCall
SpecEncodings == Init /\ [][NextEncodings]_vars

\* predictTree iteration by iteration; the loop is synchronous code, so an
\* iteration that can run does run.
NextWalk ==
    \/ WalkStart
    \/ WalkStep
SpecWalk == Init /\ [][NextWalk]_vars /\ WF_vars(WalkStep)

\* ================================================================ claims
\* ---- C1 (SpecScorer).  On a scorer on which no loadModel call has resolved,
\* predict throws 'Model not loaded. Call loadModel() first.' for every batch, the
\* empty one included, and returns no predictions.
C1_UnloadedPredictThrows ==
    (call.op = "predict" /\ ~loadSucceeded)
        => (call.outcome = NotLoadedError /\ call.predictions = <<>>)

\* predict was called with a record on a scorer that never loaded a model, and threw.
C1_Witness ==
    /\ call.op = "predict"
    /\ ~loadSucceeded
    /\ call.batch # <<>>
    /\ call.outcome = NotLoadedError

\* Thresholds in ascending order.
Ascending(t) == t.no_risk <= t.low_risk /\ t.low_risk <= t.medium_risk

\* ---- C2 (SpecScorer).  With thresholds t1 <= t2 <= t3, getRiskCategory(s) is
\* 'no-risk' iff s <= t1, 'low-risk' iff t1 < s <= t2, 'medium-risk' iff
\* t2 < s <= t3 and 'high-risk' iff s > t3: a score on a boundary is in the lower
\* bucket.
C2_CategoryByThresholds ==
    (/\ call.op = "getRiskCategory"
     /\ ~IsAbsent(model)
     /\ ~IsAbsent(model[1].risk_thresholds)
     /\ Ascending(model[1].risk_thresholds[1]))
        => LET t == model[1].risk_thresholds[1]
               s == call.score
           IN  /\ call.outcome = Returned
               /\ (call.category = "no-risk") <=> (s <= t.no_risk)
               /\ (call.category = "low-risk") <=> (t.no_risk < s /\ s <= t.low_risk)
               /\ (call.category = "medium-risk") <=> (t.low_risk < s /\ s <= t.medium_risk)
               /\ (call.category = "high-risk") <=> (s > t.medium_risk)

\* getRiskCategory was called with a score equal to the first of three distinct
\* ascending boundaries, and answered 'no-risk'.
C2_Witness ==
    /\ call.op = "getRiskCategory"
    /\ ~IsAbsent(model)
    /\ model[1].risk_thresholds = Some(Thresholds(220, 470, 650))
    /\ call.score = 220
    /\ call.category = "no-risk"

\* The model states learner_model_param.base_score, as a bracketed number.
DeclaresBaseScore(m) == ~IsAbsent(m.base_score) /\ m.base_score[1].kind = "arrayString"

\* ---- C3 (SpecScorer).  For a loaded model with an empty tree list that declares a
\* base score, every score predict returns is sigmoid(base score), base score 0.0
\* giving 0.5, and no error is raised.
C3_EmptyEnsembleScoresSigmoidOfBase ==
    (/\ call.op = "predict"
     /\ ~IsAbsent(model)
     /\ TreesOf(model[1]) = <<>>
     /\ DeclaresBaseScore(model[1])
     /\ ~IsAbsent(model[1].risk_thresholds))
        => /\ call.outcome = Returned
           /\ \A i \in 1..Len(call.predictions) :
                call.predictions[i].risk_score = Sigmoid(model[1].base_score[1].tenths)

\* ---- C4 (SpecScorer).  Every RiskPrediction predict returns has
\* 0 <= risk_score <= 1 (0..1000 thousandths), for every loaded model and batch.
C4_RiskScoreInUnitInterval ==
    (call.op = "predict" /\ call.outcome = Returned)
        => \A i \in 1..Len(call.predictions) :
             0 <= call.predictions[i].risk_score /\ call.predictions[i].risk_score <= 1000

\* The expected structure of a model file, read at its weakest: an object with a
\* feature-name list, a tree list and risk thresholds.
ExpectedStructure(c) ==
    /\ c.json = "object"
    /\ (~IsAbsent(c.feature_names) \/ ~IsAbsent(c.learner_feature_names))
    /\ ~IsAbsent(c.trees)
    /\ ~IsAbsent(c.risk_thresholds)

\* ---- C5 (SpecScorer).  loadModel rejects with 'Failed to load model' whenever the
\* file cannot be read or its content is not the expected structure, and such a
\* content is never the scorer's model.
C5_LoadRejectsUnexpectedContent ==
    /\ (call.op = "loadModel"
        /\ (~call.file.readable \/ ~ExpectedStructure(call.file.content)))
            => call.outcome = LoadFailedError
    /\ ~IsAbsent(model) => ExpectedStructure(model[1])

\* The model lists feature names other than the Feature Engineer's, in count or order.
NamesMismatch(m) == ~IsAbsent(m.feature_names) /\ m.feature_names[1] # GetFeatureNames

\* ---- C6 (SpecScorer).  When the names of the Feature Engineer's vector differ in
\* count or order from the loaded model's feature-name list, the pipeline fails: a
\* predict call on at least one record throws and produces no predictions.
C6_NameMismatchIsFatal ==
    (call.op = "predict" /\ call.batch # <<>> /\ ~IsAbsent(model) /\ NamesMismatch(model[1]))
        => (call.outcome # Returned /\ call.predictions = <<>>)

\* ---- C7 (SpecScorer).  Once a loadModel call has resolved on a scorer, predict
\* never throws the model-not-loaded error, whatever loadModel calls follow.
C7_LoadedIsOneWay ==
    (call.op = "predict" /\ loadSucceeded) => call.outcome # NotLoadedError

\* The branches of the repository at place.
RepoBranches(place) == {place.branches[i] : i \in 1..Len(place.branches)}

\* ---- C8 (SpecConstructor).  Where git itself runs, the constructor succeeds iff
\* the path exists, is a working copy and the branch argument is one of the
\* repository's branches; else it throws, in this order, the error of the missing
\* path, of the invalid repository, or of the branch not found.
C8_ConstructorValidates ==
    (ctor.called /\ (ctor.place.isGit => ctor.place.listOk))
        => /\ (ctor.outcome = Constructed)
                <=> (/\ ctor.place.exists
                     /\ ctor.place.isGit
                     /\ ctor.branch \in RepoBranches(ctor.place))
           /\ ~ctor.place.exists => ctor.outcome = PathMissing
           /\ (ctor.place.exists /\ ~ctor.place.isGit) => ctor.outcome = InvalidRepo
           /\ (ctor.place.exists /\ ctor.place.isGit
               /\ ctor.branch \notin RepoBranches(ctor.place)) => ctor.outcome = BranchNotFound

\* A non-empty run of digits.
AllDigits(s) == Len(s) >= 1 /\ \A i \in 1..Len(s) : IsDigit(s[i])

\* hash|author|integer timestamp|message
WellFormedHeader(line) ==
    LET fields == Split(line, "|")
    IN  Len(fields) >= 4 /\ AllDigits(fields[3])

\* integer TAB integer TAB path
WellFormedStat(line) ==
    LET parts == Split(line, "\t")
    IN  Len(parts) >= 3 /\ AllDigits(parts[1]) /\ AllDigits(parts[2])

\* ---- C9 (SpecAggregator).  No line makes fetchCommitData throw: every iteration
\* of the loop leaves it running, and a line that is neither a well-formed commit
\* header nor a numeric-stat line changes neither an aggregate nor the commit
\* context.
C9_EveryLineIsTolerated ==
    [][ (fetch = "folding" /\ idx < Len(lines))
            => /\ fetch' # "threw"
               /\ (~WellFormedHeader(lines[idx + 1]) /\ ~WellFormedStat(lines[idx + 1]))
                    => UNCHANGED <<fileStats, current>> ]_vars

\* String.prototype.endsWith
EndsWith(s, suffix) ==
    Len(s) >= Len(suffix) /\ SubSeq(s, Len(s) - Len(suffix) + 1, Len(s)) = suffix

\* The path ends in an allowed extension, in any case, behind a non-empty file name.
HasSourceExtension(p) ==
    \E e \in SourceExtensions :
        /\ EndsWith(ToLowerCase(p), e)
        /\ Len(p) > Len(e)
        /\ p[Len(p) - Len(e)] # "/"

\* A numeric-stat line the loop parses as one: it is not read as a commit header.
ParsedStatLine(line) == WellFormedStat(line) /\ ~Includes(line, <<"|">>)

\* The paths of the parsed stat lines of the log, and the paths of the result.
StatPaths ==
    {Split(lines[i], "\t")[3] : i \in {j \in 1..Len(lines) : ParsedStatLine(lines[j])}}
ResultPaths == {results[i].module : i \in 1..Len(results)}

SourceStatLine(line) == WellFormedStat(line) /\ HasSourceExtension(Split(line, "\t")[3])

\* ---- C11 (SpecAggregator).  When the log output has no numeric-stat line of a
\* source file (it is empty, or its stat lines are of other paths only),
\* fetchCommitData does not throw, and what it returns is the empty array.
C11_NoSourceFileGivesEmpty ==
    (\A j \in 1..Len(lines) : ~SourceStatLine(lines[j]))
        => /\ fetch # "threw"
           /\ fetch = "returned" => results = <<>>

\* The positions of the parsed stat lines of path p in the log.
StatLinesOf(p) ==
    {j \in 1..Len(lines) : ParsedStatLine(lines[j]) /\ Split(lines[j], "\t")[3] = p}
\* The position of the commit header a line at position j belongs to: the last
\* header before it.
HeaderOf(j) ==
    CHOOSE k \in 1..(j - 1) :
        /\ IsHeaderLine(lines[k])
        /\ \A l \in (k + 1)..(j - 1) : ~IsHeaderLine(lines[l])
\* The fields of the header at position k.
AuthorAt(k) == Split(lines[k], "|")[2]
TimeAt(k) == DecimalValue(Split(lines[k], "|")[3], 1, Len(Split(lines[k], "|")[3]))
MessageAt(k) == ToLowerCase(Split(lines[k], "|")[4])
\* The sum of the integers of field f (1 or 2) of the stat lines at positions S.
RECURSIVE SumField(_, _)
SumField(S, f) ==
    IF S = {} THEN 0
    ELSE LET j == CHOOSE x \in S : TRUE
             field == Split(lines[j], "\t")[f]
         IN  DecimalValue(field, 1, Len(field)) + SumField(S \ {j}, f)

\* ---- C12 (SpecPipeline).  For every record fetchCommitData returns, lines added
\* and removed are the sums over the stat lines of its path, the commit count is
\* the number of these lines, the author count the number of distinct authors of
\* their commits, and the bug-commit count the number of these lines whose commit
\* message holds a bug-fix keyword.
C12_RecordSumsItsStatLines ==
    fetch = "returned"
        => \A i \in 1..Len(results) :
             LET r == results[i]
                 S == StatLinesOf(r.module)
             IN  /\ r.lines_added = SumField(S, 1)
                 /\ r.lines_deleted = SumField(S, 2)
                 /\ r.commits = Cardinality(S)
                 /\ r.authors = Cardinality({AuthorAt(HeaderOf(j)) : j \in S})
                 /\ r.bug_commits =
                      Cardinality({j \in S : SomeKeyword(BugKeywords, MessageAt(HeaderOf(j)))})

\* The history of two commits on a.ts, +10/-5 by al with "Fix x" and +20/-0 by bo
\* with "add": the record has 30 lines added, 5 removed, 2 commits, 2 authors and 1
\* bug commit.
C12_Witness ==
    /\ fetch = "returned"
    /\ lines = <<HdrFix, StatA1, HdrAdd, StatA2>>
    /\ Len(results) = 1
    /\ results[1].lines_added = 30
    /\ results[1].lines_deleted = 5
    /\ results[1].commits = 2
    /\ results[1].authors = 2
    /\ results[1].bug_commits = 1

\* The positions of the commit headers of the log, and the last line of the commit
\* block that begins at header position a.
HeaderPositions == {k \in 1..Len(lines) : IsHeaderLine(lines[k])}
BlockEnd(a) ==
    IF \E k \in HeaderPositions : k > a
    THEN (CHOOSE k \in HeaderPositions : k > a /\ \A l \in HeaderPositions : l > a => k <= l) - 1
    ELSE Len(lines)
\* The log with the block at a and the block after it, which begins at b, exchanged.
SwappedAt(a, b) ==
    SubSeq(lines, 1, a - 1) \o SubSeq(lines, b, BlockEnd(b))
        \o SubSeq(lines, a, b - 1) \o SubSeq(lines, BlockEnd(b) + 1, Len(lines))
\* The aggregates a fold leaves, as a set: one entry a path.
EntriesOf(stats) == {stats[i] : i \in 1..Len(stats)}
\* The aggregates fetchCommitData folds from the lines ls.
AggregatesOf(ls) ==
    EntriesOf(FoldAll(ls, <<>>, StartContext(CHOOSE now \in CallTimes : TRUE)).stats)

\* ---- C13 (SpecPipeline).  Aggregation is order-independent: the log with two
\* adjacent commit blocks exchanged folds to the same aggregate for every path
\* (lines added and removed, commits, authors, category counts, earliest and latest
\* timestamp) as the log itself.
C13_FoldIsOrderIndependent ==
    fetch = "returned"
        => \A a \in HeaderPositions :
             BlockEnd(a) < Len(lines)
                => AggregatesOf(SwappedAt(a, BlockEnd(a) + 1)) = EntriesOf(fileStats)

\* fetchCommitData returned on the commit of day 1 listed before the commit of day 0,
\* both on a.ts: the aggregate of a.ts spans day 0 to day 1.
C13_Witness ==
    /\ fetch = "returned"
    /\ lines = <<HdrFix, StatA1, HdrAdd, StatA2>>
    /\ SwappedAt(1, 3) = <<HdrAdd, StatA2, HdrFix, StatA1>>
    /\ Len(fileStats) = 1
    /\ fileStats[1].first_commit = Some(0)
    /\ fileStats[1].last_commit = Some(SecondsPerDay)

\* ---- C14 (SpecPipeline).  In the pipeline fetchCommitData -> predict, the feature
\* vector predict derives from each record fetchCommitData returned has commits,
\* authors, lines_added, lines_deleted and bug_commits equal to the record's commit
\* count, author count, lines added, lines removed and bug-commit count.
C14_AggregatesReachTheEngineer ==
    (call.op = "predict" /\ fetch = "returned" /\ call.batch = results)
        => /\ Len(call.features) = Len(results)
           /\ \A i \in 1..Len(results) :
                /\ call.features[i].commits = OfInt(results[i].commits)
                /\ call.features[i].authors = OfInt(results[i].authors)
                /\ call.features[i].lines_added = OfInt(results[i].lines_added)
                /\ call.features[i].lines_deleted = OfInt(results[i].lines_deleted)
                /\ call.features[i].bug_commits = OfInt(results[i].bug_commits)

\* ---- C15 (SpecEngineer).  For every record with lines added, lines removed,
\* commits and authors of zero or more, transform copies the four values unchanged
\* into lines_added, lines_deleted, commits and authors of the FeatureVector.
C15_BaseCountsAreCopied ==
    call.op = "transform"
        => \A i \in 1..Len(call.batch) :
             /\ call.features[i].lines_added = OfInt(call.batch[i].lines_added)
             /\ call.features[i].lines_deleted = OfInt(call.batch[i].lines_removed)
             /\ call.features[i].commits = OfInt(call.batch[i].prs)
             /\ call.features[i].authors = OfInt(call.batch[i].unique_authors)

\* a <= b for two numbers, none of them NaN.
RatLe(a, b) == ~IsNaN(a) /\ ~IsNaN(b) /\ a.n * b.d <= b.n * a.d
\* The record has no commit, no author and no line changed.
ZeroRecord(r) == r.prs = 0 /\ r.unique_authors = 0 /\ r.lines_added = 0 /\ r.lines_removed = 0

\* ---- C16 (SpecEngineer).  For every record with counts of zero or more, every
\* quotient transform computes has a denominator of at least 1 (the commit count,
\* the author count and the days active it divides by are at least 1), and the
\* record with no commit, no author and no line yields churn_per_commit = 0,
\* author_concentration = 1 and code_stability = 1.
C16_DenominatorsAreAtLeastOne ==
    call.op = "transform"
        => \A i \in 1..Len(call.batch) :
             LET f == call.features[i]
             IN  /\ \A k \in 1..Len(GetFeatureNames) : f[GetFeatureNames[k]].d >= 1
                 /\ RatLe(OfInt(1), f.commits)
                 /\ RatLe(OfInt(1), f.authors)
                 /\ RatLe(OfInt(1), f.days_active)
                 /\ ZeroRecord(call.batch[i])
                      => /\ RatEq(f.churn_per_commit, OfInt(0))
                         /\ RatEq(f.author_concentration, OfInt(1))
                         /\ RatEq(f.code_stability, OfInt(1))

\* transform was called on the record with no commit, no author and no line.
C16_Witness ==
    /\ call.op = "transform"
    /\ Len(call.batch) = 1
    /\ ZeroRecord(call.batch[1])
    /\ RatEq(call.features[1].author_concentration, OfInt(1))

\* The paths of a sequence of records, FeatureVectors or RiskPredictions.
ModulesOf(seq) == [i \in 1..Len(seq) |-> seq[i].module]

\* ---- C17 (SpecScorer)
\* On a loaded scorer, the FeatureVectors transform hands to predict are one per
\* input record, in input order, each with its record's path; and when predict
\* returns, its RiskPredictions are one per input record, in input order, the
\* i-th with the path of the i-th record.
C17_OnePredictionPerRecordInOrder ==
    (call.op = "predict" /\ ~IsAbsent(model)) =>
        /\ Len(call.features) = Len(call.batch)
        /\ ModulesOf(call.features) = ModulesOf(call.batch)
        /\ call.outcome = Returned =>
              /\ Len(call.predictions) = Len(call.batch)
              /\ ModulesOf(call.predictions) = ModulesOf(call.batch)

\* predict returned on a batch of two records with different paths.
C17_Witness ==
    /\ call.op = "predict"
    /\ ~IsAbsent(model)
    /\ call.outcome = Returned
    /\ call.batch = <<RecordA, RecordB>>
    /\ ModulesOf(call.predictions) = <<"a.ts", "b.ts">>
    /\ ModulesOf(call.features) = <<"a.ts", "b.ts">>

\* The score predictSingle gives vector i of a predict call on model mo.
ScoreOfVector(mo, features, i) == PredictSingle(mo[1], ExtractFeatureVector(features[i])).score

FeatureCount == 26

C20_EncodingsEvaluateAlike ==
    call.op = "predictTree" =>
        /\ call.outcome = Returned
        /\ call.weight = PredictTree(call.tree, call.vector)

\* Model m with its base score written as the bracketed string of the same value.
WithBracketedBase(m) ==
    [m EXCEPT !.base_score = Some([kind |-> "arrayString", tenths |-> m.base_score[1].tenths])]

\* ---- C21 (SpecScorer)
\* On a loaded model that declares a base score, as a scalar or as a bracketed
\* one-element string, predict returns, and every score is the one the bracketed
\* encoding of the same value gives: the declared base score is the one used.
C21_DeclaredBaseScoreIsUsed ==
    (/\ call.op = "predict"
     /\ ~IsAbsent(model)
     /\ ~IsAbsent(model[1].base_score)
     /\ ~IsAbsent(model[1].risk_thresholds))
        => /\ call.outcome = Returned
           /\ \A i \in 1..Len(call.predictions) :
                call.predictions[i].risk_score =
                    PredictSingle(WithBracketedBase(model[1]),
                                  ExtractFeatureVector(call.features[i])).score

\* The sum of the leaf weights of trees 1..n of the ensemble for a vector, each
\* tree counted once.
RECURSIVE LeafWeightSum(_, _, _)
LeafWeightSum(trees, features, n) ==
    IF n = 0 THEN 0
    ELSE LeafWeightSum(trees, features, n - 1) + PredictTree(trees[n], features)

\* ---- C22 (SpecScorer)
\* On a loaded model with at least one tree, every score predict returns is
\* sigmoid(raw), raw being the base score predictSingle starts from plus the sum
\* of the leaf weights of all the trees of the ensemble, each counted once.
C22_ScoreIsSigmoidOfBasePlusLeaves ==
    (/\ call.op = "predict"
     /\ call.outcome = Returned
     /\ ~IsAbsent(model)
     /\ TreesOf(model[1]) # <<>>)
        => \A i \in 1..Len(call.predictions) :
              LET features == ExtractFeatureVector(call.features[i])
                  trees == TreesOf(model[1])
                  raw == BaseScoreOf(model[1]) + LeafWeightSum(trees, features, Len(trees))
              IN  call.predictions[i].risk_score = Sigmoid(raw)

\* predict returned scores from the model with base score 2.0 and two trees.
C22_Witness ==
    /\ call.op = "predict"
    /\ call.outcome = Returned
    /\ ~IsAbsent(model)
    /\ TreesOf(model[1]) = <<TreeA, TreeB>>
    /\ DeclaresBaseScore(model[1])
    /\ model[1].base_score[1].tenths = 20
    /\ call.batch = <<RecordB>>
    /\ call.predictions[1].risk_score = Sigmoid(20 - 1 - 2)

\* The node ids of tree, and the sequences of them as long as a walk can be.
NodeIds(tree) == 0..(Len(tree.left_children) - 1)
IsLeaf(tree, nodeId) == tree.left_children[nodeId + 1] = -1
Walks(tree) == UNION {[1..n -> NodeIds(tree)] : n \in 1..Len(tree.left_children)}

\* walk starts at node 0, goes from each internal node to its left child iff the
\* vector's value at the node's feature index is strictly less than the node's
\* threshold and to its right child otherwise, and ends at the first leaf.
IsDescent(tree, features, walk) ==
    /\ walk[1] = 0
    /\ IsLeaf(tree, walk[Len(walk)])
    /\ \A j \in 1..(Len(walk) - 1) :
          LET nodeId == walk[j]
              value == features[tree.split_indices[nodeId + 1] + 1]
              threshold == tree.split_conditions[nodeId + 1]
          IN  /\ ~IsLeaf(tree, nodeId)
              /\ walk[j + 1] = IF value.d # 0 /\ value.n < threshold * value.d
                               THEN tree.left_children[nodeId + 1]
                               ELSE tree.right_children[nodeId + 1]

\* ---- C23 (SpecEncodings)
\* predictTree on a flat tree returns the weight of the leaf at the end of the
\* descent from node 0 that goes left iff the vector's value is strictly less than
\* the threshold and right otherwise, equality included.
C23_PredictTreeDescends ==
    (call.op = "predictTree" /\ call.scorer = "current" /\ call.shape = "flat")
        => /\ call.outcome = Returned
           /\ \E walk \in Walks(call.tree) :
                 /\ IsDescent(call.tree, call.vector, walk)
                 /\ call.weight = call.tree.base_weights[walk[Len(walk)] + 1]

\* The tree of the tests (feature 0 split at 50, leaves 0.1 and -0.1) on a vector
\* whose feature 0 is exactly 50 went right, to -0.1.
C23_Witness ==
    /\ call.op = "predictTree"
    /\ call.scorer = "current"
    /\ call.shape = "flat"
    /\ call.tree = TreeA
    /\ call.vector[1] = OfInt(50)
    /\ call.outcome = Returned
    /\ call.weight = -1

\* The context the header at position k states: its author, its timestamp and the
\* three flags of its message.
ContextAt(k) ==
    [ author |-> AuthorAt(k), date |-> Some(TimeAt(k)),
      isBugFix |-> SomeKeyword(BugKeywords, MessageAt(k)),
      isFeature |-> SomeKeyword(FeatureKeywords, MessageAt(k)),
      isRefactor |-> SomeKeyword(RefactorKeywords, MessageAt(k)) ]

\* The aggregate of path p in stats, or the empty aggregate.
AggregateOf(stats, p) ==
    IF StatsIndex(stats, p) = 0
    THEN [authors |-> {}, bug_commits |-> 0, feature_commits |-> 0, refactor_commits |-> 0,
          dates |-> {}]
    ELSE LET e == stats[StatsIndex(stats, p)]
         IN  [authors |-> e.authors, bug_commits |-> e.bug_commits,
              feature_commits |-> e.feature_commits, refactor_commits |-> e.refactor_commits,
              dates |-> {e.first_commit[1], e.last_commit[1]}]

Flag(b) == IF b THEN 1 ELSE 0

\* ---- C24 (SpecPipeline)
\* In every iteration of the loop over a history: a header line replaces the
\* whole context by its own author, timestamp and flags and touches no aggregate;
\* a stat line leaves the context and is folded with the author, the timestamp and
\* the flags of the most recent header before it, whatever stat lines lie between.
C24_StatLinesInheritTheLastHeader ==
    [][ (fetch = "folding" /\ fetch' = "folding" /\ idx' = idx + 1) =>
          LET j == idx'
              line == lines[j]
          IN  /\ IsHeaderLine(line) => (current' = ContextAt(j) /\ fileStats' = fileStats)
              /\ ParsedStatLine(line) =>
                    LET k == HeaderOf(j)
                        p == Split(line, "\t")[3]
                        old == AggregateOf(fileStats, p)
                        new == AggregateOf(fileStats', p)
                        t == TimeAt(k)
                    IN  /\ current' = current
                        /\ new.authors = old.authors \cup {AuthorAt(k)}
                        /\ new.bug_commits = old.bug_commits + Flag(ContextAt(k).isBugFix)
                        /\ new.feature_commits = old.feature_commits + Flag(ContextAt(k).isFeature)
                        /\ new.refactor_commits = old.refactor_commits + Flag(ContextAt(k).isRefactor)
                        /\ \A d \in old.dates \cup {t} :
                              \E lo \in new.dates, hi \in new.dates : lo <= d /\ d <= hi
                        /\ new.dates \subseteq old.dates \cup {t} ]_vars

\* Two stat lines under one header, after another commit: the second stat line,
\* of b.TS, was folded with the author and the flags of the header two lines above.
C24_Witness ==
    /\ fetch = "folding"
    /\ idx = 4
    /\ Len(lines) = 4
    /\ IsHeaderLine(lines[1])
    /\ IsHeaderLine(lines[2])
    /\ lines[2] # lines[1]
    /\ ParsedStatLine(lines[3])
    /\ ParsedStatLine(lines[4])
    /\ Split(lines[3], "\t")[3] # Split(lines[4], "\t")[3]
    /\ AggregateOf(fileStats, Split(lines[4], "\t")[3]).authors = {AuthorAt(2)}
    /\ current = ContextAt(2)

\* The commit message of a header line %H|%ae|%at|%s: all that follows the third
\* "|", lower-cased.
WholeMessage(line) ==
    LET fields == Split(line, "|")
    IN  ToLowerCase(Join(SubSeq(fields, 4, Len(fields)), "|"))

\* ---- C25 (SpecAggregator)
\* After the header line of a commit, the commit counts as bug-fix iff its whole
\* lower-cased message contains one of 'fix', 'bug', 'patch', 'hotfix', 'bugfix',
\* as feature iff it contains one of 'feat', 'feature', 'add', 'implement', and as
\* refactor iff it contains one of 'refactor', 'clean', 'improve', each flag
\* decided on its own.
C25_FlagsFollowTheWholeMessage ==
    (/\ fetch = "folding"
     /\ idx >= 1
     /\ WellFormedHeader(lines[idx]))
        => LET message == WholeMessage(lines[idx])
           IN  /\ current.isBugFix <=> SomeKeyword(BugKeywords, message)
               /\ current.isFeature <=> SomeKeyword(FeatureKeywords, message)
               /\ current.isRefactor <=> SomeKeyword(RefactorKeywords, message)

\* a <= b for two Dates: false when one of them is invalid.
DateLe(a, b) == ~IsAbsent(a) /\ ~IsAbsent(b) /\ a[1] <= b[1]

\* Every header of the log has the integer timestamp %at prints.
TimestampsAreIntegers(ls) ==
    \A j \in 1..Len(ls) :
        (IsHeaderLine(ls[j]) /\ Len(Split(ls[j], "|")) >= 4) => AllDigits(Split(ls[j], "|")[3])

\* The invariant of a FileAggregate.
AggregateInvariant(e) ==
    /\ e.lines_added >= 0
    /\ e.lines_deleted >= 0
    /\ e.commits >= 0
    /\ DateLe(e.first_commit, e.last_commit)

\* Aggregate e has grown into f: no sum and no count is smaller, the latest
\* timestamp is not earlier and the earliest not later.
GrownInto(e, f) ==
    /\ f.path = e.path
    /\ f.lines_added >= e.lines_added
    /\ f.lines_deleted >= e.lines_deleted
    /\ f.commits >= e.commits
    /\ DateLe(e.last_commit, f.last_commit)
    /\ DateLe(f.first_commit, e.first_commit)

\* ---- C26 (SpecPipeline)
\* On a log whose headers carry integer timestamps, after every iteration of the
\* loop every FileAggregate has lines added, lines removed and commit count >= 0
\* and earliest commit <= latest commit, and the iteration has decreased no sum
\* and no count, has not moved a latest timestamp back nor an earliest one
\* forward.
C26_AggregatesGrowMonotonically ==
    [][ (fetch = "folding" /\ idx' = idx + 1 /\ TimestampsAreIntegers(lines)) =>
          /\ \A i \in 1..Len(fileStats') : AggregateInvariant(fileStats'[i])
          /\ \A i \in 1..Len(fileStats) :
                \E n \in 1..Len(fileStats') : GrownInto(fileStats[i], fileStats'[n]) ]_vars

\* The aggregate of a.ts after two of its stat lines with a commit header between
\* them: 30 lines added, 5 removed, 2 commits, and an earliest commit before the
\* latest.
C26_Witness ==
    /\ fetch = "folding"
    /\ idx = 4
    /\ TimestampsAreIntegers(lines)
    /\ IsHeaderLine(lines[1])
    /\ IsHeaderLine(lines[3])
    /\ Len(fileStats) = 1
    /\ fileStats[1].lines_added = 30
    /\ fileStats[1].lines_deleted = 5
    /\ fileStats[1].commits = 2
    /\ fileStats[1].first_commit[1] < fileStats[1].last_commit[1]

\* max(1, ceil(d)) for the d days between two timestamps in seconds: the least
\* n >= 1 with n days >= the span.
CeilDays(first, last) ==
    CHOOSE n \in 1..(((last - first) \div SecondsPerDay) + 2) :
        /\ n * SecondsPerDay >= last - first
        /\ n = 1 \/ (n - 1) * SecondsPerDay < last - first

\* ---- C27 (SpecPipeline)
\* For every record of the pipeline, the days_active the aggregator put in the
\* record and the days_active the Feature Engineer put in the record's
\* FeatureVector both equal max(1, ceil(d)), d the days between the record's first
\* and last commit.
C27_DaysActiveIsCeilOfSpan ==
    (call.op = "predict" /\ fetch = "returned" /\ call.batch = results)
        => \A i \in 1..Len(results) :
              LET days == OfInt(CeilDays(results[i].created_at[1], results[i].last_modified[1]))
              IN  /\ results[i].days_active = days
                  /\ call.features[i].days_active = days

\* ---- C28 (SpecScorer)
\* A loadModel call that rejects leaves this.model exactly as it was before the
\* call: a loaded model stays the same model, and an unloaded scorer stays
\* unloaded.
C28_RejectedLoadKeepsTheModel ==
    [][ (call'.op = "loadModel" /\ call'.outcome = LoadFailedError) =>
          /\ model' = model
          /\ loadSucceeded' = loadSucceeded ]_vars

\* loadModel rejected on a scorer that holds a model with trees: the model is
\* still there.
C28_Witness ==
    /\ call.op = "loadModel"
    /\ call.outcome = LoadFailedError
    /\ loadSucceeded
    /\ ~IsAbsent(model)
    /\ TreesOf(model[1]) = <<TreeA>>

\* The nodes of tree at level k below node 0, following the links of the nodes
\* that are not leaves.
RECURSIVE Level(_, _)
Level(tree, k) ==
    IF k = 0 THEN {0}
    ELSE UNION { {tree.left_children[n + 1], tree.right_children[n + 1]} :
                 n \in {m \in Level(tree, k - 1) : m \in NodeIds(tree) /\ ~IsLeaf(tree, m)} }

\* The child ids of tree are in range and its links form a finite binary tree
\* rooted at node 0: no level reaches outside the arrays, and the levels end.
IsFiniteTree(tree) ==
    /\ \A k \in 0..Len(tree.left_children) : Level(tree, k) \subseteq NodeIds(tree)
    /\ Level(tree, Len(tree.left_children)) = {}

\* The number of the last level of a finite tree.
Depth(tree) == CHOOSE k \in 0..Len(tree.left_children) :
                  Level(tree, k) # {} /\ Level(tree, k + 1) = {}

\* ---- C29 (SpecWalk)
\* On every tree whose child ids are in range and whose links form a finite
\* binary tree rooted at node 0, predictTree returns for every vector, after at
\* most one move per level, with the weight of the leaf it reached.  The loop has
\* no step bound of its own: a walk that has made as many moves as the tree has
\* nodes, on a tree with a cycle or with a child id out of range, never returns.
C29_PredictTreeTerminatesOnFiniteTrees ==
    /\ (call.op = "walk" /\ IsFiniteTree(call.tree)) ~> (call.outcome = Returned)
    /\ [](call.op = "walk" /\ IsFiniteTree(call.tree) => call.steps <= Depth(call.tree))
    /\ []((call.op = "walk" /\ IsFiniteTree(call.tree) /\ call.outcome = Returned)
            => call.weight = PredictTree(call.tree, call.vector))
    /\ []((call.op = "walk" /\ call.steps >= Len(call.tree.left_children))
            => call.outcome # Returned)

\* The walk returned the weight 0.3 from the deepest leaf of the two-level tree,
\* after two moves.
C29_Witness ==
    /\ call.op = "walk"
    /\ call.tree = TreeB
    /\ call.outcome = Returned
    /\ call.steps = 2
    /\ call.weight = 3

\* ---- C30 (SpecPipeline)
\* Every record fetchCommitData returns has commits >= 1, 1 <= authors <= commits
\* and bug_commits, feature_commits and refactor_commits between 0 and commits,
\* and no two records of the result have the same path.
C30_RecordCountsAreConsistent ==
    fetch = "returned"
        => /\ \A i \in 1..Len(results) :
                 LET r == results[i]
                 IN  /\ r.commits >= 1
                     /\ 1 <= r.authors /\ r.authors <= r.commits
                     /\ 0 <= r.bug_commits /\ r.bug_commits <= r.commits
                     /\ 0 <= r.feature_commits /\ r.feature_commits <= r.commits
                     /\ 0 <= r.refactor_commits /\ r.refactor_commits <= r.commits
           /\ \A i \in 1..Len(results), n \in 1..Len(results) :
                 results[i].module = results[n].module => i = n

\* One path touched by two commits of one author, a bug fix and a refactoring:
\* one record, with 2 commits, 1 author, 1 bug commit and 1 refactor commit.
C30_Witness ==
    /\ fetch = "returned"
    /\ Len(lines) = 4
    /\ Len(results) = 1
    /\ results[1].commits = 2
    /\ results[1].authors = 1
    /\ results[1].bug_commits = 1
    /\ results[1].feature_commits = 0
    /\ results[1].refactor_commits = 1
====
